---- MODULE Spec2Model ----
(***************************************************************************)
(* Model of two parts of rugix:                                            *)
(*   - the STLV tag registry   (rugix-bundle/src/format/tags.rs)           *)
(*   - the slot model          (rugix-ctrl/src/system/slots.rs)            *)
(*                                                                         *)
(* Specifications:                                                         *)
(*   Spec      from_config on one (root, config) input, then calls of the  *)
(*             slot set's methods by a single caller                       *)
(*   SpecConc  concurrent callers of active/mark_active on one slot set,   *)
(*             each call split at its mutex operations                     *)
(*   SpecTags  the tag predicates applied to a probe tag                   *)
(*   SpecBakery  load_project of rugix-bakery (cli/mod.rs) on one project  *)
(*             directory, run any number of times                          *)
(***************************************************************************)
EXTENDS Integers, Sequences, FiniteSets

VARIABLES
    root,      \* Option<&SystemRoot> handed to from_config
    config,    \* Option<&IndexMap<String, SlotConfig>> handed to from_config
    phase,     \* "start": from_config not called yet; "ok" / "err": its result
    slots,     \* SystemSlots.slots of the constructed instance (<<>> if none)
    err,       \* error message of a failed from_config ("" if none)
    io,        \* device operations from_config performed, in order
    called,    \* indices (1-based) of the slots mark_active was called on
    ret,       \* Option: the last call of the single caller and its result
    threads,   \* SpecConc: per caller, its position in active/mark_active
    locked,    \* SpecConc: per slot, whether the Mutex of `active` is held
    returned,  \* SpecConc: slots on which a mark_active call has returned
    tag,       \* SpecTags: the probe tag (4 bytes)
    answer,    \* SpecTags: Option: the last predicate applied and its result
    env,       \* SpecBakery: the environment variables load_project reads
    fs,        \* SpecBakery: /project/.rugix and its docker-image tag file
    lp         \* SpecBakery: outcome of the last load_project call

vars == <<root, config, phase, slots, err, io, called, ret,
          threads, locked, returned, tag, answer, env, fs, lp>>

slotVars == <<root, config, phase, slots, err, io, called, ret>>
concVars == <<threads, locked, returned>>
tagVars  == <<tag, answer>>
bakeryVars == <<env, fs, lp>>

(***************************************************************************)
(* Option<T>: None is the empty sequence, Some(x) the one-element one.     *)
(***************************************************************************)
None == <<>>

Some(x) == <<x>>

unwrap(o) == o[1]

unwrap_or(o, default) == IF o = None THEN default ELSE o[1]

(***************************************************************************)
(* Tag registry                                                            *)
(***************************************************************************)

\* A u32 is kept as its two 16-bit halves [hi, lo] (value = hi * 2^16 + lo).

\* u32::to_be_bytes: most significant byte first.
to_be_bytes(v) ==
    << v.hi \div 256, v.hi % 256, v.lo \div 256, v.lo % 256 >>

\* Tag::from_bytes / Tag::as_bytes: a Tag wraps its four bytes.
from_bytes(bytes) == bytes

as_bytes(t) == t

\* u8 & u8, bit by bit.
RECURSIVE BitAnd(_, _)
BitAnd(a, b) ==
    IF a = 0 \/ b = 0 THEN 0
    ELSE (IF a % 2 = 1 /\ b % 2 = 1 THEN 1 ELSE 0) + 2 * BitAnd(a \div 2, b \div 2)

IS_OPTIONAL_MASK == 128

is_optional_last_byte(t) == BitAnd(as_bytes(t)[4], IS_OPTIONAL_MASK) # 0

is_optional(t) == BitAnd(as_bytes(t)[1], IS_OPTIONAL_MASK) # 0

is_required(t) == ~is_optional(t)

\* The define_tags! invocation with the value of PAYLOAD pasted into
\* PAYLOAD_HEADER.
define_tags_duplicate == <<
    [name |-> "BUNDLE", hi |-> 27472, lo |-> 29724, optional |-> FALSE],
    [name |-> "BUNDLE_HEADER", hi |-> 18863, lo |-> 25651, optional |-> FALSE],
    [name |-> "BUNDLE_HEADER_MANIFEST", hi |-> 5658, lo |-> 41538, optional |-> FALSE],
    [name |-> "BUNDLE_HEADER_HASH_ALGORITHM", hi |-> 23736, lo |-> 3542, optional |-> FALSE],
    [name |-> "BUNDLE_HEADER_PAYLOAD_INDEX", hi |-> 4979, lo |-> 31122, optional |-> FALSE],
    [name |-> "PAYLOAD_ENTRY_TYPE_SLOT", hi |-> 17866, lo |-> 32382, optional |-> FALSE],
    [name |-> "PAYLOAD_ENTRY_TYPE_EXECUTE", hi |-> 15071, lo |-> 13045, optional |-> FALSE],
    [name |-> "PAYLOAD_ENTRY_HEADER_HASH", hi |-> 24426, lo |-> 24753, optional |-> FALSE],
    [name |-> "PAYLOAD_ENTRY_FILE_HASH", hi |-> 3213, lo |-> 8144, optional |-> FALSE],
    [name |-> "PAYLOAD_ENTRY_DELTA_ENCODING", hi |-> 10028, lo |-> 57247, optional |-> FALSE],
    [name |-> "PAYLOAD_TYPE_SLOT_SLOT", hi |-> 6947, lo |-> 7655, optional |-> FALSE],
    [name |-> "PAYLOAD_TYPE_EXECUTE_HANDLER", hi |-> 19256, lo |-> 13986, optional |-> FALSE],
    [name |-> "BLOCK_INDEX", hi |-> 6885, lo |-> 3214, optional |-> FALSE],
    [name |-> "BUNDLE_HEADER_IS_INCREMENTAL", hi |-> 8435, lo |-> 53611, optional |-> FALSE],
    [name |-> "BLOCK_INDEX_CHUNKER", hi |-> 23775, lo |-> 8624, optional |-> FALSE],
    [name |-> "BLOCK_INDEX_HASH_ALGORITHM", hi |-> 7570, lo |-> 41088, optional |-> FALSE],
    [name |-> "BLOCK_INDEX_BLOCK_HASHES", hi |-> 21989, lo |-> 18392, optional |-> FALSE],
    [name |-> "BLOCK_INDEX_BLOCK_SIZES", hi |-> 18024, lo |-> 50618, optional |-> FALSE],
    [name |-> "SIGNATURES", hi |-> 43065, lo |-> 14065, optional |-> TRUE],
    [name |-> "SIGNATURES_CMS_SIGNATURE", hi |-> 38805, lo |-> 18831, optional |-> TRUE],
    [name |-> "PAYLOADS", hi |-> 499, lo |-> 36794, optional |-> FALSE],
    [name |-> "PAYLOAD", hi |-> 18700, lo |-> 44975, optional |-> FALSE],
    [name |-> "PAYLOAD_HEADER", hi |-> 18700, lo |-> 44975, optional |-> FALSE],
    [name |-> "PAYLOAD_DATA", hi |-> 17149, lo |-> 25626, optional |-> FALSE],
    [name |-> "PAYLOAD_HEADER_BLOCK_ENCODING", hi |-> 16621, lo |-> 37652, optional |-> FALSE],
    [name |-> "COMPRESSION_XZ", hi |-> 29821, lo |-> 61723, optional |-> FALSE],
    [name |-> "BLOCK_ENCODING_HASH_ALGORITHM", hi |-> 32543, lo |-> 39243, optional |-> FALSE],
    [name |-> "BLOCK_ENCODING_DEDUPLICATED", hi |-> 1424, lo |-> 10534, optional |-> FALSE],
    [name |-> "BLOCK_ENCODING_CHUNKER", hi |-> 21895, lo |-> 11512, optional |-> FALSE],
    [name |-> "BLOCK_ENCODING_COMPRESSION", hi |-> 30770, lo |-> 6086, optional |-> FALSE],
    [name |-> "BLOCK_ENCODING_BLOCK_HASHES", hi |-> 30387, lo |-> 55200, optional |-> FALSE],
    [name |-> "BLOCK_ENCODING_BLOCK_SIZES", hi |-> 10213, lo |-> 54258, optional |-> FALSE],
    [name |-> "DELTA_ENCODING_FORMAT", hi |-> 15242, lo |-> 60314, optional |-> FALSE],
    [name |-> "DELTA_ENCODING_INPUT", hi |-> 19976, lo |-> 47601, optional |-> FALSE],
    [name |-> "DELTA_ENCODING_ORIGINAL_HASH", hi |-> 25718, lo |-> 3612, optional |-> FALSE],
    [name |-> "DELTA_ENCODING_INPUT_HASH", hi |-> 14861, lo |-> 4871, optional |-> FALSE],
    [name |-> "SIGNED_METADATA", hi |-> 25040, lo |-> 34590, optional |-> FALSE],
    [name |-> "SIGNED_METADATA_HEADER_HASH", hi |-> 8089, lo |-> 11772, optional |-> FALSE] >>

\* The define_tags! invocation: name = literal, `?` marks an optional tag.
define_tags == <<
    [name |-> "BUNDLE", hi |-> 27472, lo |-> 29724, optional |-> FALSE],
    [name |-> "BUNDLE_HEADER", hi |-> 18863, lo |-> 25651, optional |-> FALSE],
    [name |-> "BUNDLE_HEADER_MANIFEST", hi |-> 5658, lo |-> 41538, optional |-> FALSE],
    [name |-> "BUNDLE_HEADER_HASH_ALGORITHM", hi |-> 23736, lo |-> 3542, optional |-> FALSE],
    [name |-> "BUNDLE_HEADER_PAYLOAD_INDEX", hi |-> 4979, lo |-> 31122, optional |-> FALSE],
    [name |-> "PAYLOAD_ENTRY_TYPE_SLOT", hi |-> 17866, lo |-> 32382, optional |-> FALSE],
    [name |-> "PAYLOAD_ENTRY_TYPE_EXECUTE", hi |-> 15071, lo |-> 13045, optional |-> FALSE],
    [name |-> "PAYLOAD_ENTRY_HEADER_HASH", hi |-> 24426, lo |-> 24753, optional |-> FALSE],
    [name |-> "PAYLOAD_ENTRY_FILE_HASH", hi |-> 3213, lo |-> 8144, optional |-> FALSE],
    [name |-> "PAYLOAD_ENTRY_DELTA_ENCODING", hi |-> 10028, lo |-> 57247, optional |-> FALSE],
    [name |-> "PAYLOAD_TYPE_SLOT_SLOT", hi |-> 6947, lo |-> 7655, optional |-> FALSE],
    [name |-> "PAYLOAD_TYPE_EXECUTE_HANDLER", hi |-> 19256, lo |-> 13986, optional |-> FALSE],
    [name |-> "BLOCK_INDEX", hi |-> 6885, lo |-> 3214, optional |-> FALSE],
    [name |-> "BUNDLE_HEADER_IS_INCREMENTAL", hi |-> 8435, lo |-> 53611, optional |-> FALSE],
    [name |-> "BLOCK_INDEX_CHUNKER", hi |-> 23775, lo |-> 8624, optional |-> FALSE],
    [name |-> "BLOCK_INDEX_HASH_ALGORITHM", hi |-> 7570, lo |-> 41088, optional |-> FALSE],
    [name |-> "BLOCK_INDEX_BLOCK_HASHES", hi |-> 21989, lo |-> 18392, optional |-> FALSE],
    [name |-> "BLOCK_INDEX_BLOCK_SIZES", hi |-> 18024, lo |-> 50618, optional |-> FALSE],
    [name |-> "SIGNATURES", hi |-> 43065, lo |-> 14065, optional |-> TRUE],
    [name |-> "SIGNATURES_CMS_SIGNATURE", hi |-> 38805, lo |-> 18831, optional |-> TRUE],
    [name |-> "PAYLOADS", hi |-> 499, lo |-> 36794, optional |-> FALSE],
    [name |-> "PAYLOAD", hi |-> 18700, lo |-> 44975, optional |-> FALSE],
    [name |-> "PAYLOAD_HEADER", hi |-> 2393, lo |-> 51829, optional |-> FALSE],
    [name |-> "PAYLOAD_DATA", hi |-> 17149, lo |-> 25626, optional |-> FALSE],
    [name |-> "PAYLOAD_HEADER_BLOCK_ENCODING", hi |-> 16621, lo |-> 37652, optional |-> FALSE],
    [name |-> "COMPRESSION_XZ", hi |-> 29821, lo |-> 61723, optional |-> FALSE],
    [name |-> "BLOCK_ENCODING_HASH_ALGORITHM", hi |-> 32543, lo |-> 39243, optional |-> FALSE],
    [name |-> "BLOCK_ENCODING_DEDUPLICATED", hi |-> 1424, lo |-> 10534, optional |-> FALSE],
    [name |-> "BLOCK_ENCODING_CHUNKER", hi |-> 21895, lo |-> 11512, optional |-> FALSE],
    [name |-> "BLOCK_ENCODING_COMPRESSION", hi |-> 30770, lo |-> 6086, optional |-> FALSE],
    [name |-> "BLOCK_ENCODING_BLOCK_HASHES", hi |-> 30387, lo |-> 55200, optional |-> FALSE],
    [name |-> "BLOCK_ENCODING_BLOCK_SIZES", hi |-> 10213, lo |-> 54258, optional |-> FALSE],
    [name |-> "DELTA_ENCODING_FORMAT", hi |-> 15242, lo |-> 60314, optional |-> FALSE],
    [name |-> "DELTA_ENCODING_INPUT", hi |-> 19976, lo |-> 47601, optional |-> FALSE],
    [name |-> "DELTA_ENCODING_ORIGINAL_HASH", hi |-> 25718, lo |-> 3612, optional |-> FALSE],
    [name |-> "DELTA_ENCODING_INPUT_HASH", hi |-> 14861, lo |-> 4871, optional |-> FALSE],
    [name |-> "SIGNED_METADATA", hi |-> 25040, lo |-> 34590, optional |-> FALSE],
    [name |-> "SIGNED_METADATA_HEADER_HASH", hi |-> 8089, lo |-> 11772, optional |-> FALSE] >>

TagIdx == 1 .. Len(define_tags)

\* @define: pub const $name: Tag = Tag::from_bytes(($tag as u32).to_be_bytes())
TagConst(i) == from_bytes(to_be_bytes([hi |-> define_tags[i].hi, lo |-> define_tags[i].lo]))

\* @define: the compile-time check of one tag's marker against its value
\* (TRUE: the const block does not panic).
requiredness_check(i) ==
    IF define_tags[i].optional
    THEN ~is_required(TagConst(i))
    ELSE ~is_optional(TagConst(i))

\* @impl: enum Tags { $name = $tag, ... } compiles only if no two
\* discriminants are equal.
unique_check ==
    \A i, j \in TagIdx :
        i # j => <<define_tags[i].hi, define_tags[i].lo>> # <<define_tags[j].hi, define_tags[j].lo>>

\* The match arms `$name => ...` in source order: the first arm that matches.
RECURSIVE first_match(_, _)
first_match(t, i) ==
    IF i > Len(define_tags) THEN None
    ELSE IF TagConst(i) = t THEN Some(i)
    ELSE first_match(t, i + 1)

\* TagNameResolver::resolve
resolve(t) ==
    LET m == first_match(t, 1)
    IN IF m = None THEN None ELSE Some(define_tags[unwrap(m)].name)

is_know(t) == first_match(t, 1) # None

(***************************************************************************)
(* Slot model: the collaborators of from_iter                              *)
(***************************************************************************)

\* Device paths of the environment and the ones that are block devices.
DevicePaths == {"/dev/sda2", "/tmp/image"}

BlockDevicePaths == {"/dev/sda2"}

\* BlockDevice::new(path): a handle for a path that is a block device.
BlockDevice_new(path) ==
    IF path \in BlockDevicePaths
    THEN [ok |-> TRUE, device |-> [path |-> path]]
    ELSE [ok |-> FALSE]

\* Device node of partition n of the root's parent disk.
PartitionPath(n) ==
    CASE n = 1 -> "/dev/sda1"
      [] n = 2 -> "/dev/sda2"
      [] n = 3 -> "/dev/sda3"
      [] n = 4 -> "/dev/sda4"
      [] n = 5 -> "/dev/sda5"
      [] n = 6 -> "/dev/sda6"
      [] OTHER -> "/dev/sda7"

\* SystemRoot::resolve_partition(number) -> Option<BlockDevice>
resolve_partition(r, partition) ==
    IF partition \in r.parts
    THEN Some([path |-> PartitionPath(partition)])
    ELSE None

\* PartitionTable::is_mbr
is_mbr(table) == table = "mbr"

(***************************************************************************)
(* Slot model: construction                                                *)
(***************************************************************************)

\* Slot::new: a slot starts inactive.
Slot_new(name, kind, cfg) ==
    [name |-> name, kind |-> kind, config |-> cfg, active |-> FALSE]

\* const fn default_slot_config(partition, immutable)
default_slot_config(partition, immutable) ==
    [type |-> "Block", device |-> None, partition |-> Some(partition),
     immutable |-> Some(immutable)]

\* The MBR defaults with the system slots on the partitions after boot-b.
DEFAULT_MBR_SLOTS_consecutive == <<
    [name |-> "boot-a", config |-> default_slot_config(2, FALSE)],
    [name |-> "boot-b", config |-> default_slot_config(3, FALSE)],
    [name |-> "system-a", config |-> default_slot_config(4, TRUE)],
    [name |-> "system-b", config |-> default_slot_config(5, TRUE)] >>

DEFAULT_MBR_SLOTS == <<
    [name |-> "boot-a", config |-> default_slot_config(2, FALSE)],
    [name |-> "boot-b", config |-> default_slot_config(3, FALSE)],
    [name |-> "system-a", config |-> default_slot_config(5, TRUE)],
    [name |-> "system-b", config |-> default_slot_config(6, TRUE)] >>

DEFAULT_GPT_SLOTS == <<
    [name |-> "boot-a", config |-> default_slot_config(2, FALSE)],
    [name |-> "boot-b", config |-> default_slot_config(3, FALSE)],
    [name |-> "system-a", config |-> default_slot_config(4, TRUE)],
    [name |-> "system-b", config |-> default_slot_config(5, TRUE)] >>

Bail(msg, ops) == [ok |-> FALSE, err |-> msg, io |-> ops]

\* from_iter, the `match config` of one entry: the slot's kind or the error,
\* with the device operations performed on the way.
slot_kind(r, name, cfg) ==
    IF cfg.type = "Block" THEN
        IF cfg.device # None THEN
            LET path == unwrap(cfg.device)
                dev  == BlockDevice_new(path)
                ops  == << <<"BlockDevice::new", path>> >>
            IN IF dev.ok
               THEN [ok |-> TRUE, kind |-> [type |-> "Block", device |-> dev.device],
                     io |-> ops]
               ELSE Bail("slot device is not a block device", ops)
        ELSE IF cfg.partition # None THEN
            LET partition == unwrap(cfg.partition)
            IN IF r = None THEN Bail("no system root", <<>>)
               ELSE LET dev == resolve_partition(unwrap(r), partition)
                        ops == << <<"resolve_partition", partition>> >>
                    IN IF dev = None
                       THEN Bail("partition for slot not found", ops)
                       ELSE [ok |-> TRUE,
                             kind |-> [type |-> "Block", device |-> unwrap(dev)],
                             io |-> ops]
        ELSE Bail("invalid configuration: no device and partition", <<>>)
    ELSE IF cfg.type = "File" THEN
        [ok |-> TRUE, kind |-> [type |-> "File", path |-> cfg.path], io |-> <<>>]
    ELSE
        [ok |-> TRUE, kind |-> [type |-> "Custom", handler |-> cfg.handler], io |-> <<>>]

\* A from_iter whose loop skips an entry it cannot resolve instead of failing.
RECURSIVE from_iter_skip(_, _, _, _, _)
from_iter_skip(r, entries, i, acc, ops) ==
    IF i > Len(entries)
    THEN [ok |-> TRUE, slots |-> acc, err |-> "", io |-> ops]
    ELSE LET e == entries[i]
             k == slot_kind(r, e.name, e.config)
         IN IF ~k.ok
            THEN from_iter_skip(r, entries, i + 1, acc, ops \o k.io)
            ELSE from_iter_skip(r, entries, i + 1,
                                Append(acc, Slot_new(e.name, k.kind, e.config)),
                                ops \o k.io)

\* from_iter, the `for (name, config) in iter` loop from entry i on.
RECURSIVE from_iter_loop(_, _, _, _, _)
from_iter_loop(r, entries, i, acc, ops) ==
    IF i > Len(entries)
    THEN [ok |-> TRUE, slots |-> acc, err |-> "", io |-> ops]
    ELSE LET e == entries[i]
             k == slot_kind(r, e.name, e.config)
         IN IF ~k.ok
            THEN [ok |-> FALSE, slots |-> <<>>, err |-> k.err, io |-> ops \o k.io]
            ELSE from_iter_loop(r, entries, i + 1,
                                Append(acc, Slot_new(e.name, k.kind, e.config)),
                                ops \o k.io)

from_iter_skipping(r, entries) == from_iter_skip(r, entries, 1, <<>>, <<>>)

\* SystemSlots::from_iter
from_iter(r, entries) == from_iter_loop(r, entries, 1, <<>>, <<>>)

\* SystemSlots::from_config
from_config(r, cfg) ==
    IF cfg # None THEN from_iter(r, unwrap(cfg))
    ELSE IF r = None
         THEN [ok |-> FALSE, slots |-> <<>>, err |-> "no system root", io |-> <<>>]
    ELSE IF unwrap(r).table = None
         THEN [ok |-> FALSE, slots |-> <<>>,
               err |-> "unable to determine slots: no table", io |-> <<>>]
    ELSE LET default_slots == IF is_mbr(unwrap(unwrap(r).table))
                              THEN DEFAULT_MBR_SLOTS
                              ELSE DEFAULT_GPT_SLOTS
         IN from_iter(r, default_slots)

(***************************************************************************)
(* Slot model: lookup and per-slot operations                              *)
(***************************************************************************)

\* SlotIdx { idx }: index into the slot vector, from 0.
SlotIdx(i) == [idx |-> i]

\* An iter that numbers the slots from the back.
iter_reversed(s) == [i \in 1 .. Len(s) |-> <<SlotIdx(Len(s) - i), s[i]>>]

\* SystemSlots::iter: enumerate() pairs, in vector order.
iter(s) == [i \in 1 .. Len(s) |-> <<SlotIdx(i - 1), s[i]>>]

\* Iterator::find: the first pair the predicate accepts.
RECURSIVE find_name(_, _, _)
find_name(pairs, name, i) ==
    IF i > Len(pairs) THEN None
    ELSE IF pairs[i][2].name = name THEN Some(pairs[i])
    ELSE find_name(pairs, name, i + 1)

\* SystemSlots::find_by_name
find_by_name(s, name) == find_name(iter(s), name, 1)

\* Index<SlotIdx> for SystemSlots
index(s, slotIdx) == s[slotIdx.idx + 1]

\* Slot::is_block
is_block(slot) == slot.kind.type = "Block"

\* Slot::is_immutable
is_immutable(slot) ==
    IF slot.config.type = "Block" THEN unwrap_or(slot.config.immutable, FALSE)
    ELSE IF slot.config.type = "File" THEN unwrap_or(slot.config.immutable, FALSE)
    ELSE FALSE

\* Slot::active on the slot at position i: the value behind the mutex.
active(s, i) == s[i].active

\* A mark_active that flips the flag instead of setting it.
mark_active_toggle(s, i) == [s EXCEPT ![i].active = ~s[i].active]

\* A mark_active that rebuilds the slot from its configuration.
mark_active_rebuild(s, i) ==
    [s EXCEPT ![i] = [name |-> s[i].name,
                      kind |-> [type |-> s[i].config.type],
                      config |-> s[i].config,
                      active |-> TRUE]]

\* Slot::mark_active on the slot at position i: store true behind the mutex.
mark_active(s, i) == [s EXCEPT ![i].active = TRUE]

\* Mutex::lock succeeds only while no guard of that mutex is alive.
lock_ignored(held, i) == TRUE

can_lock(held, i) == ~held[i]

(***************************************************************************)
(* Inputs                                                                  *)
(***************************************************************************)

\* Largest number of entries of an explicit slot configuration.
MaxSlots == 2

\* Number of concurrent callers.
NumThreads == 2

\* Names of configured slots. The code only compares names for equality, so
\* a configuration lists them in this order (any subset, no name twice).
SlotNames == <<"boot-a", "system-a", "data">>

NameIdx == 1 .. Len(SlotNames)

\* Names looked up: the configured and default ones, and an absent one.
LookupNames == { SlotNames[k] : k \in NameIdx } \cup {"boot-b", "missing"}

SlotConfigs == {
    [type |-> "Block", device |-> Some("/dev/sda2"), partition |-> None,
     immutable |-> None],
    [type |-> "Block", device |-> Some("/dev/sda2"), partition |-> Some(2),
     immutable |-> Some(TRUE)],
    [type |-> "Block", device |-> Some("/tmp/image"), partition |-> Some(2),
     immutable |-> None],
    [type |-> "Block", device |-> None, partition |-> Some(2),
     immutable |-> Some(FALSE)],
    [type |-> "Block", device |-> None, partition |-> Some(4),
     immutable |-> Some(TRUE)],
    [type |-> "Block", device |-> None, partition |-> None,
     immutable |-> None],
    [type |-> "File", path |-> "/run/slot.img", immutable |-> Some(TRUE)],
    [type |-> "Custom", handler |-> <<"/usr/bin/handler">>] }

\* An IndexMap has one entry per key: the names of a configuration differ.
Configs ==
    UNION { { [i \in 1 .. n |-> [name |-> SlotNames[ks[i]], config |-> cs[i]]] :
                ks \in { f \in [1 .. n -> NameIdx] :
                            \A i, j \in 1 .. n : i < j => f[i] < f[j] },
                cs \in [1 .. n -> SlotConfigs] }
            : n \in 0 .. MaxSlots }

Roots ==
    { [table |-> None, parts |-> {2, 3, 5, 6}],
      [table |-> Some("mbr"), parts |-> {2, 3, 5, 6}],
      [table |-> Some("mbr"), parts |-> {2, 3, 4, 5}],
      [table |-> Some("gpt"), parts |-> {2, 3, 4, 5}],
      [table |-> Some("gpt"), parts |-> {2, 3, 5, 6}] }

Threads == 1 .. NumThreads

IdleThread == [pc |-> "idle", op |-> "none", slot |-> 0, saw |-> FALSE, ret |-> None]

\* Probe tags: every value of the first byte, extreme values of the others,
\* and every defined tag.
ProbeValues ==
    { [hi |-> b0 * 256 + b1, lo |-> w] :
        b0 \in 0 .. 255, b1 \in {0, 255}, w \in {0, 65535} }
    \cup { [hi |-> define_tags[i].hi, lo |-> define_tags[i].lo] : i \in TagIdx }

(***************************************************************************)
(* Spec: from_config, then calls by a single caller                        *)
(***************************************************************************)

NoThreads == [t \in Threads |-> IdleThread]

\* The bakery's state outside SpecBakery: nothing set, no project directory,
\* load_project not called.
NoEnv == [dev |-> None, image |-> None, host_dir |-> None]

NoProjectDir == [dir |-> FALSE, cache |-> FALSE, tag |-> None]

NotLoaded == [past |-> FALSE, logged |-> FALSE, result |-> "none"]

Init ==
    /\ root \in {None} \cup { Some(r) : r \in Roots }
    /\ config \in {None} \cup { Some(c) : c \in Configs }
    /\ phase = "start"
    /\ slots = <<>>
    /\ err = ""
    /\ io = <<>>
    /\ called = {}
    /\ ret = None
    /\ threads = NoThreads
    /\ locked = <<>>
    /\ returned = {}
    /\ tag = from_bytes(<<0, 0, 0, 0>>)
    /\ answer = None
    /\ env = NoEnv
    /\ fs = NoProjectDir
    /\ lp = NotLoaded

FromConfig ==
    /\ phase = "start"
    /\ LET r == from_config(root, config)
       IN /\ phase' = IF r.ok THEN "ok" ELSE "err"
          /\ slots' = IF r.ok THEN r.slots ELSE <<>>
          /\ err' = r.err
          /\ io' = r.io
    /\ UNCHANGED <<root, config, called, ret>>
    /\ UNCHANGED concVars
    /\ UNCHANGED tagVars
    /\ UNCHANGED bakeryVars

MarkActive ==
    /\ phase = "ok"
    /\ \E i \in 1 .. Len(slots) :
        /\ slots' = mark_active(slots, i)
        /\ called' = called \cup {i}
        /\ ret' = Some([op |-> "mark_active", arg |-> i])
    /\ UNCHANGED <<root, config, phase, err, io>>
    /\ UNCHANGED concVars
    /\ UNCHANGED tagVars
    /\ UNCHANGED bakeryVars

Active ==
    /\ phase = "ok"
    /\ \E i \in 1 .. Len(slots) :
        ret' = Some([op |-> "active", arg |-> i, value |-> active(slots, i)])
    /\ UNCHANGED <<root, config, phase, slots, err, io, called>>
    /\ UNCHANGED concVars
    /\ UNCHANGED tagVars
    /\ UNCHANGED bakeryVars

FindByName ==
    /\ phase = "ok"
    /\ \E n \in LookupNames :
        ret' = Some([op |-> "find_by_name", arg |-> n, value |-> find_by_name(slots, n)])
    /\ UNCHANGED <<root, config, phase, slots, err, io, called>>
    /\ UNCHANGED concVars
    /\ UNCHANGED tagVars
    /\ UNCHANGED bakeryVars

Iter ==
    /\ phase = "ok"
    /\ ret' = Some([op |-> "iter", value |-> iter(slots)])
    /\ UNCHANGED <<root, config, phase, slots, err, io, called>>
    /\ UNCHANGED concVars
    /\ UNCHANGED tagVars
    /\ UNCHANGED bakeryVars

Next == FromConfig \/ MarkActive \/ Active \/ FindByName \/ Iter

Spec == Init /\ [][Next]_vars

(***************************************************************************)
(* SpecConc: concurrent callers of active / mark_active on one slot set.   *)
(* A call is: invoke, Mutex::lock, the access through the guard, and the   *)
(* drop of the guard at the end of the statement, on which it returns.     *)
(***************************************************************************)

\* The slot sets the callers share: the default layouts and a mixed one.
ConcInputs ==
    { [root |-> Some([table |-> Some("mbr"), parts |-> {2, 3, 5, 6}]),
       config |-> Some(<< [name |-> "boot-a", config |-> default_slot_config(2, FALSE)],
                          [name |-> "data",
                           config |-> [type |-> "File", path |-> "/run/slot.img",
                                       immutable |-> Some(TRUE)]] >>)],
      [root |-> None,
       config |-> Some(<< [name |-> "data",
                           config |-> [type |-> "Custom",
                                       handler |-> <<"/usr/bin/handler">>]] >>)] }

InitConc ==
    /\ \E inp \in ConcInputs :
        /\ root = inp.root
        /\ config = inp.config
        /\ LET r == from_config(inp.root, inp.config)
           IN /\ phase = (IF r.ok THEN "ok" ELSE "err")
              /\ slots = r.slots
              /\ err = r.err
              /\ io = r.io
    /\ called = {}
    /\ ret = None
    /\ threads = NoThreads
    /\ locked = [i \in 1 .. Len(slots) |-> FALSE]
    /\ returned = {}
    /\ tag = from_bytes(<<0, 0, 0, 0>>)
    /\ answer = None
    /\ env = NoEnv
    /\ fs = NoProjectDir
    /\ lp = NotLoaded

\* A caller enters Slot::active on slot i.
CallActive(t) ==
    /\ phase = "ok"
    /\ threads[t].pc = "idle"
    /\ \E i \in 1 .. Len(slots) :
        threads' = [threads EXCEPT ![t] =
            [pc |-> "lock", op |-> "active", slot |-> i,
             saw |-> (i \in returned), ret |-> None]]
    /\ UNCHANGED <<locked, returned>>
    /\ UNCHANGED slotVars
    /\ UNCHANGED tagVars
    /\ UNCHANGED bakeryVars

\* A caller enters Slot::mark_active on slot i.
CallMarkActive(t) ==
    /\ phase = "ok"
    /\ threads[t].pc = "idle"
    /\ \E i \in 1 .. Len(slots) :
        threads' = [threads EXCEPT ![t] =
            [pc |-> "lock", op |-> "mark_active", slot |-> i,
             saw |-> FALSE, ret |-> None]]
    /\ UNCHANGED <<locked, returned>>
    /\ UNCHANGED slotVars
    /\ UNCHANGED tagVars
    /\ UNCHANGED bakeryVars

\* self.active.lock().unwrap()
Lock(t) ==
    /\ threads[t].pc = "lock"
    /\ can_lock(locked, threads[t].slot)
    /\ locked' = [locked EXCEPT ![threads[t].slot] = TRUE]
    /\ threads' = [threads EXCEPT ![t].pc = "locked"]
    /\ UNCHANGED returned
    /\ UNCHANGED slotVars
    /\ UNCHANGED tagVars
    /\ UNCHANGED bakeryVars

\* active: the read `*guard`
Read(t) ==
    /\ threads[t].pc = "locked"
    /\ threads[t].op = "active"
    /\ threads' = [threads EXCEPT ![t].pc = "unlock",
                                  ![t].ret = Some(active(slots, threads[t].slot))]
    /\ UNCHANGED <<locked, returned>>
    /\ UNCHANGED slotVars
    /\ UNCHANGED tagVars
    /\ UNCHANGED bakeryVars

\* mark_active: the store `*guard = true`
Write(t) ==
    /\ threads[t].pc = "locked"
    /\ threads[t].op = "mark_active"
    /\ slots' = mark_active(slots, threads[t].slot)
    /\ called' = called \cup {threads[t].slot}
    /\ threads' = [threads EXCEPT ![t].pc = "unlock"]
    /\ UNCHANGED <<locked, returned>>
    /\ UNCHANGED <<root, config, phase, err, io, ret>>
    /\ UNCHANGED tagVars
    /\ UNCHANGED bakeryVars

\* The guard is dropped at the end of the statement and the call returns.
Unlock(t) ==
    /\ threads[t].pc = "unlock"
    /\ locked' = [locked EXCEPT ![threads[t].slot] = FALSE]
    /\ returned' = IF threads[t].op = "mark_active"
                   THEN returned \cup {threads[t].slot}
                   ELSE returned
    /\ threads' = [threads EXCEPT ![t] = IdleThread]
    /\ UNCHANGED slotVars
    /\ UNCHANGED tagVars
    /\ UNCHANGED bakeryVars

NextConc ==
    \E t \in Threads :
        \/ CallActive(t)
        \/ CallMarkActive(t)
        \/ Lock(t)
        \/ Read(t)
        \/ Write(t)
        \/ Unlock(t)

SpecConc == InitConc /\ [][NextConc]_vars

(***************************************************************************)
(* SpecTags: the tag predicates applied to a probe tag                     *)
(***************************************************************************)

InitTags ==
    /\ root = None
    /\ config = None
    /\ phase = "start"
    /\ slots = <<>>
    /\ err = ""
    /\ io = <<>>
    /\ called = {}
    /\ ret = None
    /\ threads = NoThreads
    /\ locked = <<>>
    /\ returned = {}
    /\ tag \in { from_bytes(to_be_bytes(v)) : v \in ProbeValues }
    /\ answer = None
    /\ env = NoEnv
    /\ fs = NoProjectDir
    /\ lp = NotLoaded

IsOptional ==
    /\ answer' = Some([op |-> "is_optional", value |-> is_optional(tag)])
    /\ UNCHANGED <<tag>>
    /\ UNCHANGED slotVars
    /\ UNCHANGED concVars
    /\ UNCHANGED bakeryVars

IsRequired ==
    /\ answer' = Some([op |-> "is_required", value |-> is_required(tag)])
    /\ UNCHANGED <<tag>>
    /\ UNCHANGED slotVars
    /\ UNCHANGED concVars
    /\ UNCHANGED bakeryVars

IsKnow ==
    /\ answer' = Some([op |-> "is_know", value |-> is_know(tag)])
    /\ UNCHANGED <<tag>>
    /\ UNCHANGED slotVars
    /\ UNCHANGED concVars
    /\ UNCHANGED bakeryVars

Resolve ==
    /\ answer' = Some([op |-> "resolve", value |-> resolve(tag)])
    /\ UNCHANGED <<tag>>
    /\ UNCHANGED slotVars
    /\ UNCHANGED concVars
    /\ UNCHANGED bakeryVars

NextTags == IsOptional \/ IsRequired \/ IsKnow \/ Resolve

SpecTags == InitTags /\ [][NextTags]_vars

(***************************************************************************)
(* SpecBakery: load_project (rugix-bakery, cli/mod.rs)                     *)
(* A string that is trimmed is a sequence of characters; fs is the         *)
(* directory /project/.rugix: whether it exists, whether it holds cached   *)
(* build artifacts, and its file docker-image (None: absent; not readable: *)
(* something else than a text file is at that path).                       *)
(***************************************************************************)

Whitespace == {" ", "\n"}

RECURSIVE trim_start(_)
trim_start(str) ==
    IF str # <<>> /\ Head(str) \in Whitespace THEN trim_start(Tail(str)) ELSE str

RECURSIVE trim_end(_)
trim_end(str) ==
    IF str # <<>> /\ str[Len(str)] \in Whitespace
    THEN trim_end(SubSeq(str, 1, Len(str) - 1))
    ELSE str

\* str::trim: without leading and trailing whitespace.
trim(str) == trim_end(trim_start(str))

\* std::env::var("RUGIX_DEV").map(|dev| dev != "false").unwrap_or(false)
dev_mode(e) == IF e.dev = None THEN FALSE ELSE unwrap(e.dev) # "false"

\* std::fs::remove_dir_all("/project/.rugix").ok()
remove_dir_all(f) == [dir |-> FALSE, cache |-> FALSE, tag |-> None]

\* std::fs::create_dir_all("/project/.rugix")
create_dir_all(f) == [f EXCEPT !.dir = TRUE]

\* std::fs::write(image_tag, bakery_image)
fs_write(f, content) ==
    IF f.tag # None /\ ~unwrap(f.tag).readable
    THEN [ok |-> FALSE, fs |-> f]
    ELSE [ok |-> TRUE,
          fs |-> [f EXCEPT !.tag = Some([readable |-> TRUE, content |-> content])]]

\* load_project: the file system it leaves, whether it got past the write of
\* the tag file, whether it logged the deletion of the cache, and its result
\* (`loaded`: whether ProjectLoader::load succeeds).
load_project(e, f, loaded) ==
    IF e.image = None
    THEN [fs |-> f, past |-> FALSE, logged |-> FALSE,
          result |-> "unable to determine Docker image"]
    ELSE
        LET bakery_image == unwrap(e.image)
            checked == ~dev_mode(e) /\ f.tag # None
        IN IF checked /\ ~unwrap(f.tag).readable
           THEN [fs |-> f, past |-> FALSE, logged |-> FALSE,
                 result |-> "unable to read image tag"]
           ELSE
               LET logged == checked
                             /\ trim(unwrap(f.tag).content) # trim(bakery_image)
                   removed == IF checked THEN remove_dir_all(f) ELSE f
                   created == create_dir_all(removed)
                   written == fs_write(created, bakery_image)
               IN IF ~written.ok
                  THEN [fs |-> created, past |-> FALSE, logged |-> logged,
                        result |-> "unable to write Docker image tag"]
                  ELSE IF e.host_dir = None
                  THEN [fs |-> written.fs, past |-> TRUE, logged |-> logged,
                        result |-> "unable to determine host directory"]
                  ELSE [fs |-> written.fs, past |-> TRUE, logged |-> logged,
                        result |-> IF loaded THEN "ok" ELSE "unable to load project"]

\* Docker image names and tag file contents, as character sequences.
ImageStrings ==
    { <<"a">>, <<"a", "\n">>, <<" ", "a">>, <<"b">>, <<"a", " ", "b">> }

Envs ==
    [dev : {None, Some("false"), Some("true"), Some("0")},
     image : {None} \cup { Some(i) : i \in ImageStrings },
     host_dir : {None, Some("/home/user/project")}]

\* The tag file lies in the directory, and so do the cached artifacts.
FileSystems ==
    { [dir |-> FALSE, cache |-> FALSE, tag |-> None] }
    \cup [dir : {TRUE}, cache : BOOLEAN,
          tag : {None, Some([readable |-> FALSE, content |-> <<>>])}
                \cup { Some([readable |-> TRUE, content |-> i]) : i \in ImageStrings }]

InitBakery ==
    /\ root = None
    /\ config = None
    /\ phase = "start"
    /\ slots = <<>>
    /\ err = ""
    /\ io = <<>>
    /\ called = {}
    /\ ret = None
    /\ threads = NoThreads
    /\ locked = <<>>
    /\ returned = {}
    /\ tag = from_bytes(<<0, 0, 0, 0>>)
    /\ answer = None
    /\ env \in Envs
    /\ fs \in FileSystems
    /\ lp = NotLoaded

\* One run of a command that calls load_project.
LoadProject ==
    /\ \E loaded \in BOOLEAN :
        LET r == load_project(env, fs, loaded)
        IN /\ fs' = r.fs
           /\ lp' = [past |-> r.past, logged |-> r.logged, result |-> r.result]
    /\ UNCHANGED env
    /\ UNCHANGED slotVars
    /\ UNCHANGED concVars
    /\ UNCHANGED tagVars

NextBakery == LoadProject

SpecBakery == InitBakery /\ [][NextBakery]_vars

(***************************************************************************)
(* Properties                                                              *)
(***************************************************************************)

\* The entries from_config builds slots from: the explicit configuration, or
\* the default layout of the root's table.
ExpectedNames == <<"boot-a", "boot-b", "system-a", "system-b">>

ExpectedPartitions(table) ==
    IF table = "mbr" THEN <<2, 3, 5, 6>> ELSE <<2, 3, 4, 5>>

\* The slot set is the four default slots on the partitions of `table`.
IsDefaultLayout(table) ==
    /\ Len(slots) = 4
    /\ \A i \in 1 .. 4 :
        /\ slots[i].name = ExpectedNames[i]
        /\ slots[i].kind.type = "Block"
        /\ resolve_partition(unwrap(root), ExpectedPartitions(table)[i]) # None
        /\ slots[i].kind.device =
               unwrap(resolve_partition(unwrap(root), ExpectedPartitions(table)[i]))

NoTable == root = None \/ unwrap(root).table = None

\* C1 as stated: without an explicit configuration, from_config fails when
\* there is no root or no partition table, and with an MBR (GPT) table it
\* yields the four default slots on partitions 2, 3, 5, 6 (2, 3, 4, 5).
C1_DefaultsForEveryTable ==
    (phase # "start" /\ config = None) =>
        IF NoTable THEN phase = "err"
        ELSE phase = "ok" /\ IsDefaultLayout(unwrap(unwrap(root).table))

\* C1 (amended): without an explicit configuration, from_config fails when
\* there is no root or no partition table; with an MBR (GPT) table whose root
\* resolves partitions 2, 3, 5, 6 (2, 3, 4, 5) it yields exactly the four
\* default slots, in order, on the devices resolved for these partitions; and
\* it fails when the root cannot resolve one of these partitions.
C1_DefaultsWhenPartitionsResolve ==
    (phase # "start" /\ config = None) =>
        IF NoTable THEN phase = "err" /\ slots = <<>>
        ELSE LET table == unwrap(unwrap(root).table)
                 parts == { ExpectedPartitions(table)[i] : i \in 1 .. 4 }
             IN IF parts \subseteq unwrap(root).parts
                THEN phase = "ok" /\ IsDefaultLayout(table)
                ELSE phase = "err" /\ slots = <<>>

C1_Witness ==
    /\ phase = "ok"
    /\ config = None
    /\ unwrap(root).table = Some("mbr")
    /\ Len(slots) = 4
    /\ slots[3].kind.device.path = "/dev/sda5"

\* An entry from_iter cannot resolve: neither device nor partition, only a
\* partition that no root resolves, or a device path that is no block device.
Unresolvable(e) ==
    /\ e.config.type = "Block"
    /\ \/ e.config.device = None /\ e.config.partition = None
       \/ /\ e.config.device = None
          /\ e.config.partition # None
          /\ \/ root = None
             \/ unwrap(e.config.partition) \notin unwrap(root).parts
       \/ /\ e.config.device # None
          /\ unwrap(e.config.device) \notin BlockDevicePaths

\* C2: with an explicit configuration that has an unresolvable Block entry at
\* any position, from_config returns an error and no slot set at all.
C2_AllOrNothing ==
    (phase # "start" /\ config # None
        /\ \E i \in 1 .. Len(unwrap(config)) : Unresolvable(unwrap(config)[i]))
    => (phase = "err" /\ slots = <<>> /\ err # "")

C2_Witness ==
    /\ phase = "err"
    /\ config # None
    /\ Len(unwrap(config)) = 2
    /\ ~Unresolvable(unwrap(config)[1])
    /\ Unresolvable(unwrap(config)[2])

\* C3: every slot starts inactive, and at any time a slot's flag is true
\* exactly if mark_active was called on that slot before; active() returns
\* that value, so a call on another slot never changes it and nothing resets it.
C3_ActiveIffMarked ==
    /\ phase = "ok" =>
        \A i \in 1 .. Len(slots) : active(slots, i) <=> (i \in called)
    /\ (ret # None /\ unwrap(ret).op = "active") =>
        (unwrap(ret).value <=> (unwrap(ret).arg \in called))

C3_Witness ==
    /\ phase = "ok"
    /\ Len(slots) >= 2
    /\ ret # None
    /\ unwrap(ret).op = "active"
    /\ unwrap(ret).value = TRUE
    /\ \E j \in 1 .. Len(slots) : j \notin called /\ ~active(slots, j)

\* The entries the slot set was built from, in configuration order.
BuiltFrom ==
    IF config # None THEN unwrap(config)
    ELSE IF is_mbr(unwrap(unwrap(root).table)) THEN DEFAULT_MBR_SLOTS
    ELSE DEFAULT_GPT_SLOTS

\* What find_by_name(n) must return on the current slot set.
FindIsCorrect(n, found) ==
    IF \A i \in 1 .. Len(slots) : slots[i].name # n
    THEN found = None
    ELSE /\ found # None
         /\ unwrap(found)[2].name = n
         /\ unwrap(found)[1].idx \in 0 .. Len(slots) - 1
         /\ index(slots, unwrap(found)[1]) = unwrap(found)[2]
         \* the same index as on the freshly constructed slot set
         /\ unwrap(found)[1] =
                unwrap(find_by_name(from_config(root, config).slots, n))[1]

\* C4: iter yields one pair per configured entry, the i-th being index i-1 and
\* the slot named like the i-th entry; find_by_name returns None for an absent
\* name and otherwise the pair (idx, slot) with that name such that indexing
\* by idx yields that slot; calls of active / mark_active do not change this.
C4_LookupAndOrder ==
    phase = "ok" =>
        /\ Len(iter(slots)) = Len(BuiltFrom)
        /\ \A i \in 1 .. Len(BuiltFrom) :
            /\ iter(slots)[i][1] = SlotIdx(i - 1)
            /\ iter(slots)[i][2].name = BuiltFrom[i].name
            /\ index(slots, iter(slots)[i][1]) = iter(slots)[i][2]
        /\ \A n \in LookupNames : FindIsCorrect(n, find_by_name(slots, n))
        /\ (ret # None /\ unwrap(ret).op = "find_by_name") =>
            FindIsCorrect(unwrap(ret).arg, unwrap(ret).value)
        /\ (ret # None /\ unwrap(ret).op = "iter") =>
            unwrap(ret).value = iter(slots)

C4_Witness ==
    /\ phase = "ok"
    /\ called # {}
    /\ ret # None
    /\ unwrap(ret).op = "find_by_name"
    /\ unwrap(ret).value # None
    /\ unwrap(unwrap(ret).value)[1].idx = 1

InCritical(t) == threads[t].pc \in {"locked", "unlock"}

\* C5: no two callers hold the flag of one slot at once, the flag of a slot
\* on which a mark_active has returned is true, and an active() that started
\* after a mark_active on its slot returned reads true.
C5_ExclusiveAndLinearizable ==
    /\ \A t, u \in Threads :
        (t # u /\ InCritical(t) /\ InCritical(u)) => threads[t].slot # threads[u].slot
    /\ \A i \in 1 .. Len(slots) :
        locked[i] <=> \E t \in Threads : InCritical(t) /\ threads[t].slot = i
    /\ \A i \in returned : active(slots, i)
    /\ \A t \in Threads :
        (threads[t].op = "active" /\ threads[t].ret # None /\ threads[t].saw)
            => unwrap(threads[t].ret) = TRUE

C5_Witness ==
    \E t, u \in Threads :
        /\ t # u
        /\ threads[t].op = "active"
        /\ threads[t].saw
        /\ threads[t].ret = Some(TRUE)
        /\ threads[u].pc = "lock"
        /\ threads[u].op = "mark_active"
        /\ threads[u].slot = threads[t].slot

OptionalNames == {"SIGNATURES", "SIGNATURES_CMS_SIGNATURE"}

\* C6: is_optional and is_required yield a boolean for every tag, is_optional
\* holds exactly if the top bit of the first byte is set, is_required is its
\* negation, and every defined tag is classified as its definition marks it:
\* the two signature tags optional, all others required.
C6_OptionalIsTopBit ==
    /\ is_optional(tag) \in BOOLEAN
    /\ is_required(tag) \in BOOLEAN
    /\ is_optional(tag) <=> as_bytes(tag)[1] >= 128
    /\ is_required(tag) <=> as_bytes(tag)[1] < 128
    /\ (answer # None /\ unwrap(answer).op = "is_optional") =>
        (unwrap(answer).value <=> as_bytes(tag)[1] >= 128)
    /\ (answer # None /\ unwrap(answer).op = "is_required") =>
        (unwrap(answer).value <=> as_bytes(tag)[1] < 128)
    /\ \A i \in TagIdx :
        /\ requiredness_check(i)
        /\ define_tags[i].optional <=> (define_tags[i].name \in OptionalNames)
        /\ is_optional(TagConst(i)) <=> (define_tags[i].name \in OptionalNames)
        /\ is_required(TagConst(i)) <=> (define_tags[i].name \notin OptionalNames)

C6_Witness ==
    /\ answer = Some([op |-> "is_optional", value |-> TRUE])
    /\ is_know(tag)

\* The defined tags whose value is t.
NamesOf(t) == { i \in TagIdx : TagConst(i) = t }

\* C7: no two of the 38 defined tags have the same four bytes, so a known
\* value has exactly one name, which is the one resolve returns.
C7_TagsUnique ==
    /\ Len(define_tags) = 38
    /\ unique_check
    /\ \A i, j \in TagIdx : i # j => TagConst(i) # TagConst(j)
    /\ Cardinality(NamesOf(tag)) <= 1
    /\ is_know(tag) <=> Cardinality(NamesOf(tag)) = 1
    /\ (answer # None /\ unwrap(answer).op = "resolve" /\ unwrap(answer).value # None)
        => \A i \in NamesOf(tag) : define_tags[i].name = unwrap(unwrap(answer).value)

C7_Witness ==
    /\ answer # None
    /\ unwrap(answer).op = "resolve"
    /\ unwrap(answer).value = Some("PAYLOAD_HEADER")

\* C8 as stated: in a constructed slot set no two Block slots have the same
\* device.
C8_NoSharedDevice ==
    phase = "ok" =>
        \A i, j \in 1 .. Len(slots) :
            (i # j /\ is_block(slots[i]) /\ is_block(slots[j]))
                => slots[i].kind.device # slots[j].kind.device

\* A slot without its activation flag.
Static(slot) ==
    [name |-> slot.name, kind |-> slot.kind, config |-> slot.config,
     is_block |-> is_block(slot), is_immutable |-> is_immutable(slot)]

StaticAll(s) == [i \in 1 .. Len(s) |-> Static(s[i])]

\* C9: after any calls of mark_active and active, the number and order of the
\* slots and each slot's name, kind, configuration, is_block and is_immutable
\* are what construction made them.
C9_OnlyFlagChanges ==
    phase = "ok" =>
        /\ StaticAll(slots) = StaticAll(from_config(root, config).slots)
        /\ \A i \in 1 .. Len(slots) :
            /\ slots[i].name = BuiltFrom[i].name
            /\ slots[i].config = BuiltFrom[i].config

C9_Witness ==
    /\ phase = "ok"
    /\ ret # None
    /\ unwrap(ret).op = "active"
    /\ \E i \in called : is_block(slots[i]) /\ is_immutable(slots[i])
    /\ \E j \in 1 .. Len(slots) : j \notin called

\* A Block entry that sets both a device path and a partition number.
Conflicting(e) ==
    /\ e.config.type = "Block"
    /\ e.config.device # None
    /\ e.config.partition # None

\* C10 as stated: a configuration with an entry that sets both a device path
\* and a partition number makes from_config fail.
C10_ConflictIsFatal ==
    (phase # "start" /\ config # None
        /\ \E i \in 1 .. Len(unwrap(config)) : Conflicting(unwrap(config)[i]))
    => phase = "err"

\* A Block entry with neither a device path nor a partition number.
Invalid(e) ==
    /\ e.config.type = "Block"
    /\ e.config.device = None
    /\ e.config.partition = None

\* C11 as stated: when some entry of the configuration is invalid (a Block
\* entry with neither device nor partition), from_config returns its error
\* without having called BlockDevice::new or resolve_partition for any entry.
C11_InvalidBeforeDeviceIO ==
    (phase # "start" /\ config # None
        /\ \E i \in 1 .. Len(unwrap(config)) : Invalid(unwrap(config)[i]))
    => (phase = "err" /\ io = <<>>)

\* The recorded image is the current one: the tag file exists, is readable,
\* and its trimmed content equals the trimmed RUGIX_BAKERY_IMAGE.
SameImage ==
    /\ env.image # None
    /\ fs.tag # None
    /\ unwrap(fs.tag).readable
    /\ trim(unwrap(fs.tag).content) = trim(unwrap(env.image))

DevMode == env.dev # None /\ unwrap(env.dev) # "false"

CacheKept == fs.dir => (fs'.dir /\ fs'.cache = fs.cache)

\* C12 as stated: a run of load_project keeps /project/.rugix and its
\* contents when, outside dev mode, the recorded image is the current one,
\* and always in dev mode; and when it gets past this step the directory
\* exists and the tag file holds the current image name.
C12_CacheDeletedOnlyForOtherImage ==
    [][ /\ (~DevMode /\ SameImage) => CacheKept
        /\ DevMode => CacheKept
        /\ lp'.past =>
            /\ fs'.dir
            /\ fs'.tag = Some([readable |-> TRUE, content |-> unwrap(env.image)])
      ]_vars

====
